---- MODULE Spec2Model ----
(***************************************************************************)
(* Queue-state machine of CloudCache (salt/base/ext/_utils/cloud_cache.py). *)
(*                                                                         *)
(* The Redis database is the function `store` from key names to lists; a   *)
(* list is written head first (index 1 is Redis index 0) and a key whose   *)
(* list is empty does not exist, as in Redis.  Entries are the opaque       *)
(* serialized records; they are numbered in the order of enqueue.          *)
(* A drive operation (upload_pending, upload_retrying, upload_failing)     *)
(* advances one Redis call or one call of _upload per step; enqueue may    *)
(* interleave between any two steps.  utcnow() may return any timestamp.   *)
(* An upload ends as _upload sees it: "ok" (a 2xx status, it returns      *)
(* True), "server_error" (a 4xx or 5xx status, raise_for_status raises),   *)
(* "other_status" (a 1xx or 3xx status: raise_for_status does not raise    *)
(* and _upload returns True), "exception" (requests.post raises and the    *)
(* server gave no 2xx), "ok_exception" (requests.post raises after the     *)
(* server answered 2xx, for one when the connection is reset while the     *)
(* body of the response is read) or "no_endpoint".  The pacing sleep of    *)
(* _upload moves no entry: the splay factor it is called with is recorded, *)
(* the sleep is left out; so is the expiry of a TTL.  Spec has the         *)
(* operations the                                                          *)
(* worker and the producers call: enqueue and the three drive operations.  *)
(* SpecClear adds clear_queue and clear_everything, SpecKill the kill of    *)
(* the worker, SpecStoreFails a Redis call that raises, SpecForeign a key   *)
(* matching retr_* that is no retry queue name, SpecFair the fairness of    *)
(* a worker that keeps running.                                             *)
(***************************************************************************)
EXTENDS Integers, Sequences, FiniteSets, TLC

\* ---------------------------------------------------------------- bounds
MaxEntries == 2      \* entries the producers enqueue (one more in SpecHappy)
MaxTs      == 1      \* readings of utcnow() are 0..MaxTs
TicksPerDay == 1     \* timestamps per calendar day
MaxBatch   == 2      \* option batch_size ranges over 1..MaxBatch
MaxRetry   == 2      \* option max_retry ranges over 1..MaxRetry
retry_queue_limit == 2   \* option retry_queue_limit

MaxFails   == MaxRetry + 1   \* the count of server errors saturates here
Entries    == 1..(MaxEntries + 1)
Timestamps == 0..MaxTs
DateOf(ts) == ts \div TicksPerDay        \* the %Y%m%d prefix of a timestamp
Dates      == {DateOf(t) : t \in Timestamps}

\* ----------------------------------------------------------- queue names
QueueName(kind, ts, att) == [kind |-> kind, ts |-> ts, att |-> att]

PENDING_QUEUE      == QueueName("pend", 0, 0)
PENDING_WORK_QUEUE == QueueName("pend.work", 0, 0)
FAIL_WORK_QUEUE    == QueueName("fail.work", 0, 0)
RETRY_QUEUE(now, attempt) == QueueName("retr", now, attempt)
FAIL_QUEUE(now)    == QueueName("fail", DateOf(now), 0)

RetryNames == {QueueName("retr", t, a) : t \in Timestamps, a \in 0..MaxRetry}
FailNames  == {QueueName("fail", d, 0) : d \in Dates}

\* keys that the pattern retr_* lists but that no RETRY_QUEUE call built:
\* the strings "retr_#" and "retr_x", which sort before and after every
\* retr_{timestamp}_#{attempt}
ForeignNames == {QueueName("retr_#", 0, 0), QueueName("retr_x", 0, 0)}

Names == {PENDING_QUEUE, PENDING_WORK_QUEUE, FAIL_WORK_QUEUE} \cup RetryNames \cup FailNames
            \cup ForeignNames

\* decimal digits of a natural number, most significant first ("{:d}")
RECURSIVE Digits(_)
Digits(n) == IF n < 10 THEN <<n>> ELSE Append(Digits(n \div 10), n % 10)

\* lexicographic order on digit strings
RECURSIVE LexLess(_, _)
LexLess(s, t) ==
    IF s = <<>> THEN t # <<>>
    ELSE IF t = <<>> THEN FALSE
    ELSE IF Head(s) # Head(t) THEN Head(s) < Head(t)
    ELSE LexLess(Tail(s), Tail(t))

\* the character after "retr_" / "fail_" decides first: "#" < digit < "x"
KindRank(kind) == IF kind = "retr_#" THEN 0 ELSE IF kind = "retr_x" THEN 2 ELSE 1

\* string order of two names: within one class the timestamp (or date) has
\* a fixed width and the attempt suffix is compared as a string
NameLess(a, b) ==
    \/ KindRank(a.kind) < KindRank(b.kind)
    \/ /\ KindRank(a.kind) = KindRank(b.kind)
       /\ \/ a.ts < b.ts
          \/ a.ts = b.ts /\ LexLess(Digits(a.att), Digits(b.att))

RECURSIVE SortNames(_)
SortNames(S) ==
    IF S = {} THEN <<>>
    ELSE LET m == CHOOSE x \in S : \A y \in S \ {x} : NameLess(x, y)
         IN  <<m>> \o SortNames(S \ {m})

\* KEYS pattern: "retr_*" and "fail_*" match the names with that prefix
GlobMatch(name, pattern) ==
    IF pattern = "retr_*" THEN name.kind \in {"retr", "retr_#", "retr_x"}
    ELSE name.kind = "fail"

list_queues(st, pattern) ==
    SortNames({k \in Names : GlobMatch(k, pattern) /\ st[k] # <<>>})

\* mutant of RetryMatch: every listed name is taken for a retry queue
RetryMatchAny(queue) == TRUE

\* RETRY_QUEUE_REGEX: the names built by RETRY_QUEUE parse; "retr_#" and
\* "retr_x" have no _{digits}_#{digits} tail and do not
RetryMatch(queue) == queue.kind = "retr"

\* ------------------------------------------------------ list primitives
Range(s) == {s[i] : i \in 1..Len(s)}

\* LPUSH key e
LPush(st, key, e) == [st EXCEPT ![key] = <<e>> \o @]

\* LPUSH key e1 e2 ...: each is pushed on the head in turn
RECURSIVE LPushAll(_, _, _)
LPushAll(st, key, es) ==
    IF es = <<>> THEN st ELSE LPushAll(LPush(st, key, Head(es)), key, Tail(es))

\* mutant of RPopLPush: the head of src is moved, not its tail
LPopLPush(st, src, dst) ==
    [st EXCEPT ![src] = Tail(st[src]), ![dst] = <<Head(st[src])>> \o st[dst]]

\* RPOPLPUSH src dst (src is not empty)
RPopLPush(st, src, dst) ==
    LET val == st[src][Len(st[src])]
    IN  [st EXCEPT ![src] = SubSeq(st[src], 1, Len(st[src]) - 1),
                   ![dst] = <<val>> \o st[dst]]

\* DEL key
Del(st, key) == [st EXCEPT ![key] = <<>>]

\* mutant of RenameNX: src is deleted when dst exists
RenameOrDrop(st, src, dst) ==
    IF st[src] = <<>> \/ src = dst THEN st
    ELSE IF st[dst] # <<>> THEN Del(st, src)
    ELSE [st EXCEPT ![dst] = st[src], ![src] = <<>>]

\* RENAMENX src dst of a key src that exists: nothing happens when dst
\* exists.  A src that does not exist is an error of the command; the
\* callers, Rename and RFailed, test NoSuchKey first.
RenameNX(st, src, dst) ==
    IF st[dst] # <<>> \/ st[src] = <<>> \/ src = dst THEN st
    ELSE [st EXCEPT ![dst] = st[src], ![src] = <<>>]

\* the loop of DEQUEUE_BATCH_LUA: i runs from 1 to count
RECURSIVE MoveLoop(_, _, _, _, _, _)
MoveLoop(st, src, dst, i, count, ret) ==
    IF i > count \/ st[src] = <<>> THEN [ret |-> ret, store |-> st]
    ELSE MoveLoop(RPopLPush(st, src, dst), src, dst, i + 1, count,
                  Append(ret, st[src][Len(st[src])]))

\* mutant of dequeue_batch: no test of the destination, always a fresh move
dequeue_batch_no_resume(st, src, dst, count) ==
    IF st[src] # <<>> THEN MoveLoop(st, src, dst, 1, count, <<>>)
    ELSE [ret |-> <<>>, store |-> st]

\* mutant of dequeue_batch: the loop runs once too often
dequeue_batch_one_more(st, src, dst, count) ==
    IF st[dst] # <<>> THEN [ret |-> st[dst], store |-> st]
    ELSE IF st[src] # <<>> THEN MoveLoop(st, src, dst, 0, count, <<>>)
    ELSE [ret |-> <<>>, store |-> st]

\* DEQUEUE_BATCH_LUA: the returned list and the store afterwards
dequeue_batch(st, src, dst, count) ==
    IF st[dst] # <<>> THEN [ret |-> st[dst], store |-> st]
    ELSE IF st[src] # <<>> THEN MoveLoop(st, src, dst, 1, count, <<>>)
    ELSE [ret |-> <<>>, store |-> st]

\* RENAMENX src dst answers "ERR no such key" when src does not exist
NoSuchKey(st, src) == st[src] = <<>>

\* ----------------------------------------------------------------- state
VARIABLES
    batch_size,   \* option batch_size
    max_retry,    \* option max_retry
    endpoint,     \* whether option endpoint is configured
    store,        \* Redis: key name -> list
    ttl,          \* keys that carry a TTL
    workload,     \* how many entries the producers enqueue in all
    next_id,      \* number of the next entry to enqueue
    pc,           \* position of the worker
    op,           \* the drive operation in progress
    source,       \* source_queue of _upload_batch_continuing
    queues,       \* the listing a drive loop iterates over
    qi,           \* index in queues of the queue in hand
    batch,        \* batch / entries in hand
    count,        \* ret["count"] of _upload_batch_continuing
    total,        \* ret["total"]
    errors,       \* ret["errors"]
    is_overrun,   \* ret["is_overrun"]
    remaining_count,  \* remaining_count of upload_retrying
    retry_queue,  \* retry_queue of upload_pending
    result,       \* what the last drive operation returned
    acked,        \* entries the server answered 2xx for
    lastUpload,   \* entries handed to the latest call of _upload
    nuploads,     \* calls of _upload by the drive operation in progress (or last)
    lastSplay,    \* splay_factor of the latest call of _upload
    acked_now,    \* entries answered 2xx during the drive operation in progress (or last)
    entry,        \* the store when the drive operation was entered
    srvfails,     \* per entry of a retry queue: server errors met by upload_retrying
    collided      \* entries of the retry queues that could not be renamed

config == <<batch_size, max_retry, endpoint>>
redis  == <<store, ttl>>
locals == <<pc, op, source, queues, qi, batch, count, total, errors, is_overrun,
           remaining_count, retry_queue>>
server == <<acked, lastUpload, nuploads, lastSplay, acked_now>>
vars == <<config, redis, workload, next_id, locals, result, server, entry, srvfails, collided>>

NoError  == "none"
NoQueue  == QueueName("none", 0, 0)    \* retry_queue is not assigned
NoResult == [op |-> "none", total |-> 0, errors |-> <<>>, is_overrun |-> FALSE]
EmptyStore == [k \in Names |-> <<>>]

WorkQueue == IF op = "failing" THEN FAIL_WORK_QUEUE ELSE PENDING_WORK_QUEUE

\* keys lose their TTL when they cease to exist
LiveTtl(t, st) == {k \in t : st[k] # <<>>}

\* the state of a fresh database and an idle worker
Quiet ==
    /\ store = EmptyStore
    /\ ttl = {}
    /\ next_id = 1
    /\ pc = "idle"
    /\ op = "none"
    /\ source = PENDING_QUEUE
    /\ queues = <<>>
    /\ qi = 0
    /\ batch = <<>>
    /\ count = 0
    /\ total = 0
    /\ errors = <<>>
    /\ is_overrun = FALSE
    /\ remaining_count = 0
    /\ retry_queue = NoQueue
    /\ result = NoResult
    /\ acked = {}
    /\ lastUpload = <<>>
    /\ nuploads = 0
    /\ lastSplay = 0
    /\ acked_now = {}
    /\ entry = EmptyStore
    /\ srvfails = [e \in Entries |-> 0]
    /\ collided = {}

Init ==
    /\ batch_size \in 1..MaxBatch
    /\ max_retry \in 1..MaxRetry
    /\ endpoint \in BOOLEAN
    /\ workload = MaxEntries
    /\ Quiet


\* the happy-path scenario: more room in a batch than entries to enqueue
InitHappy ==
    /\ batch_size = MaxEntries + 2
    /\ max_retry = 1
    /\ endpoint = TRUE
    /\ workload = MaxEntries + 1
    /\ Quiet

\* a key matching retr_* that is no retry queue name was put in the
\* database (by an operator or another program) before the worker started;
\* its one entry, 0, is none of the enqueued entries.  upload_retrying does
\* not read batch_size: it is the largest, and a retry queue holds one entry
\* or more as pend was filled when the upload failed
InitForeign ==
    /\ batch_size = MaxBatch
    /\ max_retry \in 1..MaxRetry
    /\ endpoint = TRUE
    /\ workload = MaxEntries
    /\ \E f \in ForeignNames : store = [EmptyStore EXCEPT ![f] = <<0>>]
    /\ ttl = {}
    /\ next_id = 1
    /\ pc = "idle"
    /\ op = "none"
    /\ source = PENDING_QUEUE
    /\ queues = <<>>
    /\ qi = 0
    /\ batch = <<>>
    /\ count = 0
    /\ total = 0
    /\ errors = <<>>
    /\ is_overrun = FALSE
    /\ remaining_count = 0
    /\ retry_queue = NoQueue
    /\ result = NoResult
    /\ acked = {}
    /\ lastUpload = <<>>
    /\ nuploads = 0
    /\ lastSplay = 0
    /\ acked_now = {}
    /\ entry = EmptyStore
    /\ srvfails = [e \in Entries |-> 0]
    /\ collided = {}

\* ------------------------------------------------------------- producer
\* enqueue(data): LPUSH pend
Enqueue ==
    /\ next_id <= workload
    /\ store' = LPush(store, PENDING_QUEUE, next_id)
    /\ next_id' = next_id + 1
    /\ UNCHANGED <<config, workload, ttl, locals, result, server, entry, srvfails, collided>>

\* --------------------------------------------------------------- worker
\* a drive operation returns its summary
Return(t, errs) ==
    /\ result' = [op |-> op, total |-> t, errors |-> errs, is_overrun |-> is_overrun]
    /\ pc' = "idle"
    /\ op' = "none"
    /\ source' = PENDING_QUEUE
    /\ queues' = <<>>
    /\ qi' = 0
    /\ batch' = <<>>
    /\ count' = 0
    /\ total' = 0
    /\ errors' = <<>>
    /\ is_overrun' = FALSE
    /\ remaining_count' = 0
    /\ retry_queue' = NoQueue

\* an exception of the Redis client leaves the drive operation: there is no
\* return value
Raise ==
    /\ result' = [NoResult EXCEPT !.op = "raised"]
    /\ pc' = "idle"
    /\ op' = "none"
    /\ source' = PENDING_QUEUE
    /\ queues' = <<>>
    /\ qi' = 0
    /\ batch' = <<>>
    /\ count' = 0
    /\ total' = 0
    /\ errors' = <<>>
    /\ is_overrun' = FALSE
    /\ remaining_count' = 0
    /\ retry_queue' = NoQueue

\* entry of upload_pending: the first call is _upload_batch_continuing
StartPending ==
    /\ pc = "idle"
    /\ pc' = "dequeue"
    /\ op' = "pending"
    /\ source' = PENDING_QUEUE
    /\ entry' = store
    /\ nuploads' = 0
    /\ lastSplay' = 0
    /\ acked_now' = {}
    /\ lastUpload' = <<>>
    /\ result' = NoResult
    /\ UNCHANGED <<config, workload, redis, next_id, queues, qi, batch, count, total, errors,
                   is_overrun, remaining_count, retry_queue, acked, srvfails, collided>>

\* entry of upload_retrying / upload_failing: the first call lists the queues
StartListing(o) ==
    /\ pc = "idle"
    /\ pc' = "list"
    /\ op' = o
    /\ entry' = store
    /\ nuploads' = 0
    /\ lastSplay' = 0
    /\ acked_now' = {}
    /\ lastUpload' = <<>>
    /\ result' = NoResult
    /\ UNCHANGED <<config, workload, redis, next_id, source, queues, qi, batch, count, total,
                   errors, is_overrun, remaining_count, retry_queue, acked, srvfails,
                   collided>>

StartRetrying == StartListing("retrying")
StartFailing == StartListing("failing")

\* _upload_batch returned [count |-> c, error |-> err]: the rest of
\* _upload_batch_continuing and of its caller up to the next Redis call
AfterBatch(c, err) ==
    IF err = NoError /\ c = batch_size
    THEN /\ pc' = "dequeue"
         /\ count' = count + c
         /\ batch' = <<>>
         /\ UNCHANGED <<op, source, queues, qi, total, errors, is_overrun,
                        remaining_count, retry_queue, result>>
    ELSE IF op = "pending"
    THEN Return(total + count + c,
                IF err = NoError THEN errors ELSE Append(errors, err))
    ELSE IF err # NoError
    THEN Return(total + count + c, Append(errors, err))
    ELSE IF qi < Len(queues)
    THEN /\ pc' = "dequeue"
         /\ qi' = qi + 1
         /\ source' = queues[qi + 1]
         /\ count' = 0
         /\ total' = total + count + c
         /\ batch' = <<>>
         /\ UNCHANGED <<op, queues, errors, is_overrun, remaining_count, retry_queue,
                        result>>
    ELSE Return(total + count + c, errors)

\* mutant of Dequeue: an empty batch is uploaded like any other
DequeueUploadsEmpty ==
    /\ pc = "dequeue"
    /\ LET d == dequeue_batch(store, source, WorkQueue, batch_size)
       IN  /\ store' = d.store
           /\ ttl' = LiveTtl(ttl, d.store)
           /\ pc' = "upload"
           /\ batch' = d.ret
           /\ UNCHANGED <<op, source, queues, qi, count, total, errors, is_overrun,
                          remaining_count, retry_queue, result>>
    /\ UNCHANGED <<config, workload, next_id, server, entry, srvfails, collided>>

\* _upload_batch: the call of _dequeue_batch
Dequeue ==
    /\ pc = "dequeue"
    /\ LET d == dequeue_batch(store, source, WorkQueue, batch_size)
       IN  /\ store' = d.store
           /\ ttl' = LiveTtl(ttl, d.store)
           /\ IF d.ret = <<>>
              THEN AfterBatch(0, NoError)
              ELSE /\ pc' = "upload"
                   /\ batch' = d.ret
                   /\ UNCHANGED <<op, source, queues, qi, count, total, errors,
                                  is_overrun, remaining_count, retry_queue, result>>
    /\ UNCHANGED <<config, workload, next_id, server, entry, srvfails, collided>>

\* what a call of _upload can come to
Outcomes ==
    IF endpoint THEN {"ok", "other_status", "server_error", "exception", "ok_exception"}
    ELSE {"no_endpoint"}

\* _upload returns (True, None): raise_for_status raises for the statuses
\* 400..599 only, so every other status that requests.post returns passes
Returns_ok(outcome) == outcome \in {"ok", "other_status"}

\* the server answered the POST with a 2xx status: it has the entries,
\* whether requests.post then returns the response or raises while reading it
Answered2xx(outcome) == outcome \in {"ok", "ok_exception"}

\* the error message: what _upload returns with ok = False, or str(rex)
Message(outcome) ==
    IF outcome = "no_endpoint" THEN "No cloud endpoint configured"
    ELSE IF outcome = "ok_exception" THEN "exception"
    ELSE outcome

\* mutant of Raises: the exception of requests.post is not caught
RaisesTransportToo(outcome) == outcome \in {"server_error", "exception", "ok_exception"}

\* _upload raises on a server error; every other failure is returned
Raises(outcome) == outcome = "server_error"

\* mutant of FailedBatchCount: the size of the batch is reported
FailedBatchCountLen(b) == Len(b)

\* ret["count"] of _upload_batch when the upload was not ok
FailedBatchCount(b) == 0

\* one call of _upload as the server and the observer see it
Post(entries, splay_factor, outcome) ==
    /\ nuploads' = nuploads + 1
    /\ lastUpload' = entries
    /\ lastSplay' = splay_factor
    /\ acked' = IF Answered2xx(outcome) THEN acked \cup Range(entries) ELSE acked
    /\ acked_now' = IF Answered2xx(outcome) THEN acked_now \cup Range(entries) ELSE acked_now

\* _upload_batch: the call of _upload (the splay factor is the default, 1);
\* on a server error upload_pending appends the message and builds the name
\* retry_queue from utcnow()
Upload ==
    /\ pc = "upload"
    /\ \E outcome \in Outcomes :
        /\ Post(batch, 1, outcome)
        /\ CASE Returns_ok(outcome) ->
                  /\ pc' = "delete"
                  /\ UNCHANGED <<op, source, queues, qi, batch, count, total, errors,
                                 is_overrun, remaining_count, retry_queue, result>>
             [] Raises(outcome) /\ op = "pending" ->
                  /\ pc' = "rename"
                  /\ errors' = Append(errors, Message(outcome))
                  /\ \E now \in Timestamps : retry_queue' = RETRY_QUEUE(now, 0)
                  /\ UNCHANGED <<op, source, queues, qi, batch, count, total,
                                 is_overrun, remaining_count, result>>
             [] Raises(outcome) /\ op # "pending" ->
                  Return(total, Append(errors, Message(outcome)))
             [] OTHER -> AfterBatch(FailedBatchCount(batch), Message(outcome))
    /\ UNCHANGED <<config, workload, redis, next_id, entry, srvfails, collided>>

\* _upload_batch: delete(work_queue) after a successful upload
Delete ==
    /\ pc = "delete"
    /\ store' = Del(store, WorkQueue)
    /\ ttl' = LiveTtl(ttl, store')
    /\ AfterBatch(Len(batch), NoError)
    /\ UNCHANGED <<config, workload, next_id, server, entry, srvfails, collided>>

\* upload_pending: renamenx(pend.work, retry_queue) after a server error
Rename ==
    /\ pc = "rename"
    /\ IF NoSuchKey(store, PENDING_WORK_QUEUE)
       THEN /\ UNCHANGED redis
            /\ Raise
       ELSE /\ store' = RenameNX(store, PENDING_WORK_QUEUE, retry_queue)
            /\ ttl' = LiveTtl(ttl, store')
            /\ Return(total, errors)
    /\ UNCHANGED <<config, workload, next_id, server, entry, srvfails, collided>>

\* list_queues(pattern): the first statement of upload_retrying / upload_failing
List ==
    /\ pc = "list"
    /\ LET qs == list_queues(store, IF op = "retrying" THEN "retr_*" ELSE "fail_*")
           over == op = "retrying" /\ Len(qs) >= retry_queue_limit
       IN  IF qs = <<>>
           THEN /\ result' = [op |-> op, total |-> 0, errors |-> <<>>, is_overrun |-> over]
                /\ pc' = "idle"
                /\ op' = "none"
                /\ UNCHANGED <<source, queues, qi, batch, count, total, errors, is_overrun,
                               remaining_count, retry_queue>>
           ELSE /\ queues' = qs
                /\ qi' = 1
                /\ is_overrun' = over
                /\ remaining_count' = IF op = "retrying" THEN Len(qs) ELSE remaining_count
                /\ pc' = IF op = "retrying" THEN "lrange" ELSE "dequeue"
                /\ source' = IF op = "retrying" THEN source ELSE qs[1]
                /\ UNCHANGED <<op, batch, count, total, errors, retry_queue, result>>
    /\ UNCHANGED <<config, workload, redis, next_id, server, entry, srvfails, collided>>

\* mutant of NextQueue: the pass ends after any queue
NextQueueStops(t, errs, remaining) == Return(t, errs)

\* upload_retrying: the loop moves on to the next listed queue, or returns
NextQueue(t, errs, remaining) ==
    IF qi < Len(queues)
    THEN /\ pc' = "lrange"
         /\ qi' = qi + 1
         /\ total' = t
         /\ errors' = errs
         /\ remaining_count' = remaining
         /\ batch' = <<>>
         /\ UNCHANGED <<op, source, queues, count, is_overrun, retry_queue, result>>
    ELSE Return(t, errs)

\* upload_retrying: match the name, then lrange(queue, 0, -1)
RLrange ==
    /\ pc = "lrange"
    /\ IF RetryMatch(queues[qi])
       THEN /\ batch' = store[queues[qi]]
            /\ pc' = "r_upload"
            /\ UNCHANGED <<op, source, queues, qi, count, total, errors, is_overrun,
                           remaining_count, retry_queue, result>>
       ELSE NextQueue(total, errors, remaining_count)
    /\ UNCHANGED <<config, workload, redis, next_id, server, entry, srvfails, collided>>

\* upload_retrying: the call of _upload with splay_factor=remaining_count
RUpload ==
    /\ pc = "r_upload"
    /\ \E outcome \in Outcomes :
        /\ Post(batch, remaining_count, outcome)
        /\ srvfails' = IF Raises(outcome)
                       THEN [e \in Entries |->
                               IF e \in Range(batch) /\ srvfails[e] < MaxFails
                               THEN srvfails[e] + 1 ELSE srvfails[e]]
                       ELSE srvfails
        /\ CASE Returns_ok(outcome) ->
                  /\ pc' = "r_delete"
                  /\ UNCHANGED <<op, source, queues, qi, batch, count, total, errors,
                                 is_overrun, remaining_count, retry_queue, result>>
             [] Raises(outcome) ->
                  /\ pc' = "r_failed"
                  /\ errors' = Append(errors, Message(outcome))
                  /\ UNCHANGED <<op, source, queues, qi, batch, count, total,
                                 is_overrun, remaining_count, retry_queue, result>>
             [] OTHER -> Return(total, Append(errors, Message(outcome)))
    /\ UNCHANGED <<config, workload, redis, next_id, entry, collided>>

\* the history of the entries es ends when they leave the retry queues
Forget(fails, es) == [e \in Entries |-> IF e \in es THEN 0 ELSE fails[e]]

\* upload_retrying: delete(queue) after a successful upload, then the
\* total grows and remaining_count goes down by one
RDelete ==
    /\ pc = "r_delete"
    /\ store' = Del(store, queues[qi])
    /\ ttl' = LiveTtl(ttl, store')
    /\ NextQueue(total + Len(batch), errors, remaining_count - 1)
    /\ srvfails' = Forget(srvfails, Range(store[queues[qi]]))
    /\ collided' = collided \ Range(store[queues[qi]])
    /\ UNCHANGED <<config, workload, next_id, server, entry>>

\* the pipeline lpush(fail_queue, *entries).expire(fail_queue, fail_ttl).delete(queue)
Promote(st, queue, entries, now) == Del(LPushAll(st, FAIL_QUEUE(now), entries), queue)

\* mutant of Renamed: the suffix skips a number
RenamedSkip(queue, attempt) == QueueName(queue.kind, queue.ts, attempt + 1)

\* re.sub("_#\d+$", "_#{attempt}", queue)
Renamed(queue, attempt) == QueueName(queue.kind, queue.ts, attempt)

\* mutant of MaxRetryReached: one attempt too many
MaxRetryReachedLate(attempt) == attempt > max_retry

\* whether the failed queue goes to the fail queue
MaxRetryReached(attempt) == attempt >= max_retry

\* upload_retrying: the handler of a server error
RFailed ==
    /\ pc = "r_failed"
    /\ LET queue == queues[qi]
           attempt == queue.att + 1
       IN  IF MaxRetryReached(attempt)
           THEN IF batch = <<>>
                THEN \* LPUSH without a value is refused and EXEC aborts
                     /\ UNCHANGED redis
                     /\ Raise
                ELSE /\ \E now \in Timestamps :
                          /\ store' = Promote(store, queue, batch, now)
                          /\ ttl' = LiveTtl(ttl \cup {FAIL_QUEUE(now)}, store')
                     /\ NextQueue(total, errors, remaining_count)
           ELSE IF NoSuchKey(store, queue)
                THEN /\ UNCHANGED redis
                     /\ Raise
                ELSE /\ store' = RenameNX(store, queue, Renamed(queue, attempt))
                     /\ ttl' = LiveTtl(ttl, store')
                     /\ NextQueue(total, errors, remaining_count)
    /\ LET gone == Range(store[queues[qi]]) \ UNION {Range(store'[q]) : q \in RetryNames}
       IN  /\ collided' = IF store' = store THEN collided \cup Range(batch)
                          ELSE collided \ gone
           /\ srvfails' = Forget(srvfails, gone)
    /\ UNCHANGED <<config, workload, next_id, server, entry>>

\* the worker process is killed between two calls
Kill ==
    /\ pc # "idle"
    /\ result' = [NoResult EXCEPT !.op = "killed"]
    /\ pc' = "idle"
    /\ op' = "none"
    /\ source' = PENDING_QUEUE
    /\ queues' = <<>>
    /\ qi' = 0
    /\ batch' = <<>>
    /\ count' = 0
    /\ total' = 0
    /\ errors' = <<>>
    /\ is_overrun' = FALSE
    /\ remaining_count' = 0
    /\ retry_queue' = NoQueue
    /\ entry' = EmptyStore
    /\ lastUpload' = <<>>
    /\ nuploads' = 0
    /\ lastSplay' = 0
    /\ acked_now' = {}
    /\ srvfails' = [e \in Entries |-> MaxFails]
    /\ collided' = Entries
    /\ UNCHANGED <<config, workload, redis, next_id, acked>>

\* the Redis call the worker is about to make raises (the service is down):
\* no except clause of the drive operations names the exception, so the
\* operation is left without a return value and the call has changed nothing
StoreFails ==
    /\ pc \in {"dequeue", "delete", "rename", "list", "lrange", "r_delete", "r_failed"}
    /\ pc = "lrange" => RetryMatch(queues[qi])
    /\ result' = [NoResult EXCEPT !.op = "raised"]
    /\ pc' = "idle"
    /\ op' = "none"
    /\ source' = PENDING_QUEUE
    /\ queues' = <<>>
    /\ qi' = 0
    /\ batch' = <<>>
    /\ count' = 0
    /\ total' = 0
    /\ errors' = <<>>
    /\ is_overrun' = FALSE
    /\ remaining_count' = 0
    /\ retry_queue' = NoQueue
    /\ entry' = EmptyStore
    /\ lastUpload' = <<>>
    /\ nuploads' = 0
    /\ lastSplay' = 0
    /\ acked_now' = {}
    /\ srvfails' = [e \in Entries |-> MaxFails]
    /\ collided' = Entries
    /\ UNCHANGED <<config, workload, redis, next_id, acked>>

\* clear_queue(name) by any caller: DEL of a key that exists
ClearQueue ==
    /\ \E name \in Names :
          /\ store[name] # <<>>
          /\ store' = Del(store, name)
    /\ ttl' = LiveTtl(ttl, store')
    /\ UNCHANGED <<config, workload, next_id, locals, result, server, entry, srvfails, collided>>

\* clear_everything(confirm=True) by any caller: FLUSHDB
ClearEverything ==
    /\ store # EmptyStore
    /\ store' = EmptyStore
    /\ ttl' = {}
    /\ UNCHANGED <<config, workload, next_id, locals, result, server, entry, srvfails, collided>>

Next ==
    \/ Enqueue
    \/ StartPending
    \/ StartRetrying
    \/ StartFailing
    \/ Dequeue
    \/ Upload
    \/ Delete
    \/ Rename
    \/ List
    \/ RLrange
    \/ RUpload
    \/ RDelete
    \/ RFailed

Spec == Init /\ [][Next]_vars

NextKill == Next \/ Kill

SpecKill == Init /\ [][NextKill]_vars

SpecHappy == InitHappy /\ [][Next]_vars

SpecForeign == InitForeign /\ [][Next]_vars

\* a step of the drive operation in progress
WorkerStep ==
    \/ Dequeue
    \/ Upload
    \/ Delete
    \/ Rename
    \/ List
    \/ RLrange
    \/ RUpload
    \/ RDelete
    \/ RFailed

\* the worker runs: a drive operation in progress takes its next step, and
\* each of the three drive operations is invoked again and again
Fairness ==
    /\ WF_vars(WorkerStep)
    /\ SF_vars(StartPending)
    /\ SF_vars(StartRetrying)
    /\ SF_vars(StartFailing)

SpecFair == Init /\ [][Next]_vars /\ Fairness

NextClear == Next \/ ClearQueue \/ ClearEverything

SpecClear == Init /\ [][NextClear]_vars

NextStoreFails == Next \/ StoreFails

SpecStoreFails == Init /\ [][NextStoreFails]_vars

\* ======================================================================
\* Properties
\* ======================================================================
Enqueued == 1..(next_id - 1)

\* the entries held by the queues of the set S
HeldIn(S) == UNION {Range(store[k]) : k \in S}

\* how many times entry e occurs in the queues
Occurrences(e) ==
    Cardinality({p \in UNION {{<<k, i>> : i \in 1..Len(store[k])} : k \in Names} :
                    store[p[1]][p[2]] = e})

IsSuffix(s, t) == Len(s) <= Len(t) /\ SubSeq(t, Len(t) - Len(s) + 1, Len(t)) = s

SameEntries(s, t) == Range(s) = Range(t) /\ Len(s) = Len(t)

RetryQueues == {k \in RetryNames : store[k] # <<>>}
FailQueues  == {k \in FailNames : store[k] # <<>>}

\* ---------------------------------------------------------------- C1
\* C1: at every point of every run, kills included and whatever the server
\* answers, each enqueued entry is acknowledged (2xx) or held by one of
\* pend, pend.work, retr_*, fail_*.
C1_AsStated ==
    Enqueued = HeldIn({k \in Names : k.kind \in {"pend", "pend.work", "retr", "fail"}})
                 \cup acked

\* ---------------------------------------------------------------- C2
\* C2 (I1): between two drive invocations every enqueued entry is
\* acknowledged or held by exactly one queue; no entry is held twice and none
\* is unacknowledged and held nowhere.
C2_ExactlyOne ==
    pc = "idle" =>
        \A e \in Enqueued :
            /\ Occurrences(e) <= 1
            /\ e \in acked \/ Occurrences(e) = 1

\* ---------------------------------------------------------------- C3
\* C3 (P5): when upload_pending is entered with pend.work not empty, its
\* first call of _upload carries exactly the entries of pend.work, and until
\* that call is over the worker has taken nothing from pend (pend still ends
\* with what it held at entry; producers may have pushed on its head).
C3_Recovery ==
    (entry[PENDING_WORK_QUEUE] # <<>> /\ (op = "pending" \/ result.op = "pending")) =>
        /\ (pc = "upload" /\ nuploads = 0) => SameEntries(batch, entry[PENDING_WORK_QUEUE])
        /\ nuploads = 1 => SameEntries(lastUpload, entry[PENDING_WORK_QUEUE])
        /\ (nuploads = 0 \/ (nuploads = 1 /\ pc \in {"delete", "rename", "idle"}))
              => IsSuffix(entry[PENDING_QUEUE], store[PENDING_QUEUE])

\* the first upload of a resumed pend.work is done while pend holds entries
C3_Witness ==
    /\ op = "pending"
    /\ pc = "delete"
    /\ nuploads = 1
    /\ entry[PENDING_WORK_QUEUE] # <<>>
    /\ entry[PENDING_QUEUE] # <<>>

\* ---------------------------------------------------------------- C4
\* C4 (P4): no call of _upload, from upload_pending, upload_retrying or
\* upload_failing, carries more than batch_size entries.
C4_BatchCap ==
    /\ Len(lastUpload) <= batch_size
    /\ pc \in {"upload", "r_upload"} => Len(batch) <= batch_size

\* a full batch is about to be uploaded while pend holds more entries
C4_Witness ==
    /\ pc = "upload"
    /\ Len(batch) = batch_size
    /\ store[PENDING_QUEUE] # <<>>

\* ---------------------------------------------------------------- C5
\* the queue upload_retrying holds when it handles a server error
FailedQueue == queues[qi]

\* the handler of a server error runs in this step
HandlerRuns == pc = "r_failed" /\ pc' # "r_failed"

\* the failed queue is gone, its entries are in one fail queue that carries
\* a TTL, and in no other queue
PromotedToFail ==
    /\ store'[FailedQueue] = <<>>
    /\ \E f \in FailNames :
          /\ Range(store[FailedQueue]) \subseteq Range(store'[f])
          /\ f \in ttl'
          /\ \A g \in Names \ {f} : Range(store[FailedQueue]) \cap Range(store'[g]) = {}

\* the failed queue has the next suffix, the same timestamp and the same
\* contents, and the fail queues are as they were
RenamedToNext ==
    /\ store'[Renamed(FailedQueue, FailedQueue.att + 1)] = store[FailedQueue]
    /\ store'[FailedQueue] = <<>>
    /\ \A f \in FailNames : store'[f] = store[f]
    /\ ttl' = ttl

\* C5 as stated: after a server error on a retry queue of suffix k the queue
\* is promoted to a fail queue when k + 1 >= max_retry and renamed to suffix
\* k + 1 otherwise.
C5_AsStated ==
    [][HandlerRuns =>
          IF FailedQueue.att + 1 >= max_retry THEN PromotedToFail ELSE RenamedToNext]_vars

\* C5 (amended, P3): after a server error on a retry queue of suffix k, if
\* k + 1 >= max_retry the queue is gone and its entries are in exactly one
\* fail queue with a TTL; if k + 1 < max_retry the queue is renamed to suffix
\* k + 1 with its contents and no fail queue changes, unless a queue of that
\* name exists already, and then nothing changes.  No retry queue ever
\* carries a suffix above max_retry - 1.
C5_Promotion ==
    /\ [][HandlerRuns =>
            IF FailedQueue.att + 1 >= max_retry THEN PromotedToFail
            ELSE IF store[Renamed(FailedQueue, FailedQueue.att + 1)] = <<>>
                 THEN RenamedToNext
                 ELSE store' = store /\ ttl' = ttl]_vars
    /\ [](\A q \in RetryQueues : q.att < max_retry)

\* one pass of upload_retrying has promoted one queue and renamed another
C5_Witness ==
    /\ pc = "idle"
    /\ result.op = "retrying"
    /\ Len(result.errors) = 2
    /\ \E f \in FailQueues : f \in ttl
    /\ \E q \in RetryQueues : q.att = 1

\* ---------------------------------------------------------------- C6
\* C6 as stated (I3): the suffix of every retry queue equals the number of
\* uploads of its batch by upload_retrying that ended in a server error.
C6_AsStated ==
    pc # "r_failed" =>
        \A q \in RetryQueues : \A e \in Range(store[q]) : q.att = srvfails[e]

\* the retry queue that holds entry e in store st, if there is one
RetryOf(st, e) == {q \in RetryNames : e \in Range(st[q])}

\* C6 (amended, I3/P2): outside the handling of a server error the suffix of
\* a retry queue never exceeds the number of server errors upload_retrying
\* met for its batch, and equals it unless a rename of the batch found the
\* next name taken; the suffix is 0 at creation, changes only in the handler
\* of a server error, and never decreases.
C6_Attempts ==
    /\ [](pc # "r_failed" =>
            \A q \in RetryQueues : \A e \in Range(store[q]) :
                /\ q.att <= srvfails[e]
                /\ e \notin collided => q.att = srvfails[e])
    /\ [][\A e \in Enqueued : \A q2 \in RetryOf(store', e) :
            /\ RetryOf(store, e) = {} => q2.att = 0
            /\ \A q1 \in RetryOf(store, e) :
                  /\ q2.ts = q1.ts
                  /\ q2.att >= q1.att
                  /\ q2.att # q1.att => pc = "r_failed"]_vars

\* a retry queue has met one server error and carries suffix 1
C6_Witness ==
    /\ pc = "idle"
    /\ result.op = "retrying"
    /\ \E q \in RetryQueues :
          /\ q.att = 1
          /\ \A e \in Range(store[q]) : srvfails[e] = 1 /\ e \notin collided

\* ---------------------------------------------------------------- C7
\* A, B, C were enqueued and nothing else; upload_pending was entered with
\* all three in pend and an empty pend.work, and returned without error
HappyPath ==
    /\ pc = "idle"
    /\ result.op = "pending"
    /\ result.errors = <<>>
    /\ entry[PENDING_QUEUE] = <<3, 2, 1>>
    /\ entry[PENDING_WORK_QUEUE] = <<>>
    /\ next_id = 4
    /\ batch_size > 3

\* C7 as stated: the one POST lists the entries newest first, [C, B, A].
C7_AsStated ==
    HappyPath =>
        /\ nuploads = 1
        /\ lastUpload = <<3, 2, 1>>
        /\ store[PENDING_QUEUE] = <<>>
        /\ store[PENDING_WORK_QUEUE] = <<>>
        /\ result.total = 3

\* C7 (amended): after enqueue(A), enqueue(B), enqueue(C) a successful
\* upload_pending issues one POST whose body lists the entries oldest first,
\* [A, B, C], leaves pend and pend.work empty and returns total 3.
C7_HappyPath ==
    HappyPath =>
        /\ nuploads = 1
        /\ lastUpload = <<1, 2, 3>>
        /\ store[PENDING_QUEUE] = <<>>
        /\ store[PENDING_WORK_QUEUE] = <<>>
        /\ result.total = 3

\* the happy path has been run and all three entries are acknowledged
C7_Witness == HappyPath /\ acked = {1, 2, 3}

\* ---------------------------------------------------------------- C8
IsEnqueueOrder(s) == \A i, j \in 1..Len(s) : i < j => s[i] < s[j]

\* C8: every list handed to _upload by upload_pending or upload_retrying
\* presents its entries in the order of enqueue, on a fresh move, on the
\* resume of a work queue and on the upload of a retry queue.
C8_AsStated ==
    (op \in {"pending", "retrying"} \/ result.op \in {"pending", "retrying"})
        => IsEnqueueOrder(lastUpload)

\* ---------------------------------------------------------------- C9
TransportMessages == {"exception", "No cloud endpoint configured"}

\* upload_pending has returned after a transport failure of its last upload
PendingTransportFailed ==
    /\ pc = "idle"
    /\ result.op = "pending"
    /\ result.errors # <<>>
    /\ result.errors[Len(result.errors)] \in TransportMessages

\* C9 as stated: the batch that met a transport failure is counted, so the
\* total is the full batches uploaded before plus the size of that batch
\* (1 for a pend that held one entry).
C9_AsStated ==
    PendingTransportFailed =>
        /\ result.total = (nuploads - 1) * batch_size + Len(lastUpload)
        /\ Len(result.errors) = 1

\* C9 (amended): on a transport failure upload_batch returns count 0 with
\* the error message, so upload_pending returns the entries uploaded before
\* the failure with errors [msg]: total 0 for a pend that held one entry.
C9_TransportCount ==
    PendingTransportFailed =>
        /\ result.total = (nuploads - 1) * batch_size
        /\ Len(result.errors) = 1

\* pend held one entry, its upload met a transport failure
C9_Witness ==
    /\ PendingTransportFailed
    /\ Len(entry[PENDING_QUEUE]) = 1
    /\ entry[PENDING_WORK_QUEUE] = <<>>
    /\ nuploads = 1
    /\ result.total = 0
    /\ endpoint

\* --------------------------------------------------------------- C10
\* upload_pending resumed a batch left in pend.work, its upload was answered
\* 2xx and returned, and the delete of pend.work is done
ResumedAndDeleted ==
    /\ entry[PENDING_WORK_QUEUE] # <<>>
    /\ nuploads = 1
    /\ Range(entry[PENDING_WORK_QUEUE]) \subseteq acked_now
    /\ \/ op = "pending" /\ pc = "dequeue"
       \/ pc = "idle" /\ result.op = "pending" /\ result.errors = <<>>

\* the entries that some queue held at entry
HeldIn_entry == UNION {Range(entry[k]) : k \in Names}

\* the entries pend held at entry and holds no more
TakenFromPend == Range(entry[PENDING_QUEUE]) \ Range(store[PENDING_QUEUE])

\* what pend keeps of its contents at entry: all but the TakenFromPend
\* oldest, under whatever was enqueued meanwhile
KeepsHead ==
    IsSuffix(SubSeq(entry[PENDING_QUEUE], 1,
                    Len(entry[PENDING_QUEUE]) - Cardinality(TakenFromPend)),
             store[PENDING_QUEUE])

\* C10: when upload_pending returns after a transport failure (or with no
\* endpoint) pend.work holds exactly the batch attempted, and every retr_*
\* and fail_* queue and fail.work are as at entry: none is created, renamed,
\* deleted or touched.  Nothing is taken from pend beyond that batch and the
\* batches uploaded before it: pend keeps the head part of what it held at
\* entry, an entry it lost is in pend.work or in no queue, and those in no
\* queue are no more than the total returned; when the failed batch is the
\* one found in pend.work at entry, pend has lost nothing, and when it is
\* the first batch moved, it holds what pend lost and what was enqueued
\* meanwhile, nothing else.  An
\* upload_pending that is entered with a batch in pend.work and gets a 2xx
\* for it has uploaded exactly that batch, has taken nothing from pend for
\* it and has deleted pend.work.
C10_InPlace ==
    /\ PendingTransportFailed =>
          /\ SameEntries(store[PENDING_WORK_QUEUE], lastUpload)
          /\ store[PENDING_WORK_QUEUE] # <<>>
          /\ \A k \in RetryNames \cup FailNames \cup {FAIL_WORK_QUEUE} :
                store[k] = entry[k]
          /\ KeepsHead
          /\ TakenFromPend \subseteq
                Range(store[PENDING_WORK_QUEUE]) \cup (Enqueued \ HeldIn(Names))
          /\ Cardinality(TakenFromPend \ HeldIn(Names)) <= result.total
          /\ (nuploads = 1 /\ entry[PENDING_WORK_QUEUE] # <<>>) =>
                /\ store[PENDING_WORK_QUEUE] = entry[PENDING_WORK_QUEUE]
                /\ IsSuffix(entry[PENDING_QUEUE], store[PENDING_QUEUE])
          /\ (nuploads = 1 /\ entry[PENDING_WORK_QUEUE] = <<>>) =>
                /\ TakenFromPend \subseteq Range(store[PENDING_WORK_QUEUE])
                /\ Range(store[PENDING_WORK_QUEUE]) \ TakenFromPend
                      \subseteq Enqueued \ HeldIn_entry
    /\ ResumedAndDeleted =>
          /\ SameEntries(lastUpload, entry[PENDING_WORK_QUEUE])
          /\ store[PENDING_WORK_QUEUE] = <<>>
          /\ Range(lastUpload) \cap HeldIn(Names) = {}
          /\ IsSuffix(entry[PENDING_QUEUE], store[PENDING_QUEUE])

\* a transport failure that came after the server had answered 2xx left the
\* batch in pend.work while a retry queue exists
C10_Witness ==
    /\ PendingTransportFailed
    /\ store[PENDING_WORK_QUEUE] # <<>>
    /\ Range(store[PENDING_WORK_QUEUE]) \subseteq acked_now
    /\ RetryQueues # {}
    /\ endpoint

\* --------------------------------------------------------------- C11
\* upload_pending renames pend.work after a server error and returns
RenameReturns == pc = "rename" /\ pc' = "idle"

\* upload_pending has returned and its last upload was answered with a
\* status that is not 2xx: the server gave no 2xx for the entries in this
\* invocation and the errors do not end with the message of a transport
\* failure
PendingNon2xx ==
    /\ pc = "idle"
    /\ result.op = "pending"
    /\ nuploads >= 1
    /\ Range(lastUpload) \cap acked_now = {}
    /\ result.errors # <<>> => result.errors[Len(result.errors)] \notin TransportMessages

\* C11: when an upload of upload_pending is answered with a non-2xx status,
\* on return the result contains errors, pend.work no longer exists and one
\* new queue retr_{ts}_#0 holds exactly the entries of that batch.
C11_AsStated ==
    PendingNon2xx =>
        /\ result.errors # <<>>
        /\ store[PENDING_WORK_QUEUE] = <<>>
        /\ \E q \in RetryQueues :
              q.att = 0 /\ entry[q] = <<>> /\ SameEntries(store[q], lastUpload)

\* --------------------------------------------------------------- C12
\* upload_pending has returned without error, every entry it took out of
\* pend and pend.work was answered 2xx in this invocation, and pend holds
\* nothing that was enqueued since it was entered
PendingSucceededAlone ==
    /\ pc = "idle"
    /\ result.op = "pending"
    /\ result.errors = <<>>
    /\ (Range(entry[PENDING_QUEUE]) \cup Range(entry[PENDING_WORK_QUEUE]))
          \ HeldIn({PENDING_QUEUE, PENDING_WORK_QUEUE}) \subseteq acked_now
    /\ Range(store[PENDING_QUEUE]) \subseteq Range(entry[PENDING_QUEUE])

\* C12: when upload_pending returns after getting 2xx for every upload, with
\* no enqueue meanwhile, pend and pend.work are empty and every entry they
\* held at entry is acknowledged, also when pend.work held a batch left by an
\* earlier run and pend held further entries.
C12_AsStated ==
    PendingSucceededAlone =>
        /\ store[PENDING_QUEUE] = <<>>
        /\ store[PENDING_WORK_QUEUE] = <<>>
        /\ Range(entry[PENDING_QUEUE]) \cup Range(entry[PENDING_WORK_QUEUE]) \subseteq acked

\* --------------------------------------------------------------- C13
\* upload_pending or upload_failing has returned after a server error that
\* followed at least one upload answered 2xx in the same invocation
ServerErrorAfterSuccess ==
    /\ pc = "idle"
    /\ result.op \in {"pending", "failing"}
    /\ result.errors # <<>>
    /\ result.errors[Len(result.errors)] = "server_error"
    /\ nuploads >= 2

\* how many entries the server answered 2xx for during that invocation
AckedSinceEntry == Cardinality(acked_now)

\* C13: when upload_pending or upload_failing has uploaded one or more
\* batches and a later batch of the invocation is answered with a server
\* error, the total returned counts the entries acknowledged during the
\* invocation; it is not 0.
C13_AsStated ==
    (ServerErrorAfterSuccess /\ AckedSinceEntry > 0) => result.total >= AckedSinceEntry

\* --------------------------------------------------------------- C14
\* a drive operation ends in this step
DriveEnds == pc # "idle" /\ pc' = "idle"

\* C14: a drive operation in which a Redis call fails still returns its
\* summary, with the failure listed in errors; no drive operation ends
\* without a return value.
C14_AsStated == [][DriveEnds => result'.op = op]_vars

\* --------------------------------------------------------------- C15
\* the name upload_pending computed for the retry queue exists already
NameTaken == store[retry_queue] # <<>>

\* C15: when upload_pending renames pend.work after a server error and the
\* name it computed exists already, no queue changes: the existing retry
\* queue keeps exactly its contents and pend.work still holds exactly the
\* failed batch; when the name is free pend.work becomes that retry queue
\* and no other queue changes.  An upload_pending entered with a batch in
\* pend.work takes that batch, and nothing from pend, for its first upload.
C15_Collision ==
    /\ [][RenameReturns =>
            /\ retry_queue \in RetryNames /\ retry_queue.att = 0
            /\ lastUpload # <<>>
            /\ IF NameTaken
               THEN /\ store' = store
                    /\ store'[retry_queue] = entry[retry_queue]
                    /\ SameEntries(store'[PENDING_WORK_QUEUE], lastUpload)
               ELSE /\ SameEntries(store'[retry_queue], lastUpload)
                    /\ \A k \in Names \ {retry_queue, PENDING_WORK_QUEUE} :
                          store'[k] = store[k]]_vars
    /\ [][(op = "pending" /\ pc = "dequeue" /\ pc' # "dequeue" /\ nuploads = 0
              /\ store[PENDING_WORK_QUEUE] # <<>>) =>
            /\ pc' = "upload"
            /\ batch' = store[PENDING_WORK_QUEUE]
            /\ store' = store]_vars

\* upload_pending has returned after a server error whose rename collided:
\* the retry queues are as at entry and pend.work holds the failed batch
C15_Witness ==
    /\ pc = "idle"
    /\ result.op = "pending"
    /\ result.errors = <<"server_error">>
    /\ SameEntries(store[PENDING_WORK_QUEUE], lastUpload)
    /\ store[PENDING_WORK_QUEUE] # <<>>
    /\ RetryQueues # {}
    /\ \A q \in RetryNames : store[q] = entry[q]

\* --------------------------------------------------------------- C16
\* the retry queue names among the listed queues
IsRetryName(q) == q \in RetryNames

\* upload_retrying passes over a listed queue whose name does not parse
SkipsForeign ==
    /\ op = "retrying"
    /\ pc = "lrange"
    /\ queues[qi] \in ForeignNames
    /\ pc' # pc \/ qi' # qi

\* upload_retrying returns with no transport failure in its errors
RetryingReturnsUnblocked ==
    /\ DriveEnds
    /\ op = "retrying"
    /\ \A i \in 1..Len(result'.errors) : result'.errors[i] \notin TransportMessages

\* upload_retrying gets the answer to the upload of the queue in hand
RetryUploadEnds == op = "retrying" /\ pc = "r_upload" /\ pc' # pc

\* the listed queues whose name parses
ListedRetryQueues == SelectSeq(queues, IsRetryName)

\* the uploads of the pass in progress that succeeded: every other upload
\* of upload_retrying leaves an error
Succeeded == nuploads - Len(errors)

\* the foreign queue is never touched, read or uploaded, and passing over
\* it changes no queue, no count and no error; a pass that meets no
\* transport failure attempts every listed retry queue once
ForeignLeftAlone ==
    /\ [][\A f \in ForeignNames : store'[f] = store[f]]_vars
    /\ [](\A f \in ForeignNames :
            Range(store[f]) \cap (Range(lastUpload) \cup Range(batch) \cup acked) = {})
    /\ [](pc \in {"r_upload", "r_delete", "r_failed"} => IsRetryName(queues[qi]))
    /\ [][SkipsForeign =>
            /\ store' = store
            /\ nuploads' = nuploads
            /\ IF pc' = "idle"
               THEN result'.total = total /\ result'.errors = errors
               ELSE total' = total /\ errors' = errors /\ qi' = qi + 1]_vars
    /\ [][RetryingReturnsUnblocked =>
            nuploads' = Len(ListedRetryQueues)]_vars

\* C16 as stated: the foreign queue is never uploaded, renamed or deleted
\* and keeps its contents, and the other retry queues are processed exactly
\* as if it were absent: each upload is called with the splay factor it
\* would get in a pass that lists the retry queues only.
C16_AsStated ==
    /\ ForeignLeftAlone
    /\ [][RetryUploadEnds =>
            lastSplay' = Len(ListedRetryQueues) - Succeeded]_vars

\* C16 (amended): a queue listed by retr_* whose name is no retry queue name
\* keeps its contents in every step, none of its entries is ever handed to
\* _upload, and upload_retrying uploads, renames and deletes only queues
\* whose name parses; passing over it changes no queue, no count and no
\* error, and a pass that meets no transport failure has attempted every
\* listed retry queue once.  The queue is counted all the same: the splay
\* factor of each upload is the number of listed keys, that queue included,
\* less the uploads that succeeded, and is_overrun compares the number of
\* listed keys with retry_queue_limit.
C16_Skipped ==
    /\ ForeignLeftAlone
    /\ [][RetryUploadEnds =>
            /\ lastSplay' = Len(queues) - Succeeded
            /\ lastSplay' > Len(ListedRetryQueues) - Succeeded]_vars
    /\ [][(DriveEnds /\ op = "retrying" /\ result'.op = "retrying") =>
            result'.is_overrun = (Len(list_queues(entry, "retr_*")) >= retry_queue_limit)]_vars

\* upload_retrying has returned after a pass that uploaded one retry queue
\* and met a server error on another, with the foreign queue still there
C16_Witness ==
    /\ pc = "idle"
    /\ result.op = "retrying"
    /\ result.total > 0
    /\ result.errors = <<"server_error">>
    /\ nuploads = 2
    /\ lastSplay >= 2
    /\ \E f \in ForeignNames : store[f] = <<0>>

\* --------------------------------------------------------------- C17
\* the first Redis call of a drive operation that was invoked on an empty
\* database, nothing having been enqueued since
FirstCallOnEmptyStore ==
    /\ pc \in {"dequeue", "list"}
    /\ pc' # pc
    /\ nuploads = 0
    /\ entry = EmptyStore
    /\ store = EmptyStore

\* C17: upload_pending, upload_retrying and upload_failing invoked when no
\* queue exists return at once with total 0 and no errors, having made no
\* upload and created no queue.
C17_NoOp ==
    [][FirstCallOnEmptyStore =>
          /\ pc' = "idle"
          /\ store' = EmptyStore
          /\ ttl' = {}
          /\ nuploads' = 0
          /\ acked' = acked
          /\ result'.op = op
          /\ result'.total = 0
          /\ result'.errors = <<>>]_vars

\* upload_failing has returned from a database that earlier uploads had
\* emptied
C17_Witness ==
    /\ pc = "idle"
    /\ result.op = "failing"
    /\ result.total = 0
    /\ result.errors = <<>>
    /\ entry = EmptyStore
    /\ store = EmptyStore
    /\ nuploads = 0
    /\ acked # {}

\* --------------------------------------------------------------- C18
\* the listed queues after the one in hand
LaterQueues == {queues[j] : j \in (qi + 1)..Len(queues)}

\* the upload of the queue in hand met a transport failure
RetryTransportFailed ==
    /\ RetryUploadEnds
    /\ LET errs == IF pc' = "idle" THEN result'.errors ELSE errors'
       IN  /\ Len(errs) = Len(errors) + 1
           /\ errs[Len(errs)] \in TransportMessages

\* C18: upload_retrying attempts the listed retry queues in ascending name
\* order, each at most once per pass: the listing is ascending, the index
\* only moves forward, and each upload carries the queue at the index.  A
\* transport failure ends the pass with every later queue holding what it
\* held at entry, none uploaded; after a server error the pass goes on to
\* the next listed queue and uploads it.
C18_HeadOfLine ==
    /\ [](op = "retrying" =>
            /\ \A i, j \in 1..Len(queues) : i < j => NameLess(queues[i], queues[j])
            /\ nuploads <= qi
            /\ pc = "r_upload" => nuploads = qi - 1)
    /\ [][op = "retrying" /\ op' = "retrying" /\ pc # "list" =>
            queues' = queues /\ qi' \in {qi, qi + 1}]_vars
    /\ [][RetryUploadEnds =>
            /\ lastUpload' = store[queues[qi]]
            /\ lastUpload' = entry[queues[qi]]]_vars
    /\ [][RetryTransportFailed =>
            /\ pc' = "idle"
            /\ store' = store
            /\ \A q \in LaterQueues \cup {queues[qi]} : store'[q] = entry[q] /\ entry[q] # <<>>
            /\ nuploads' = qi
            /\ \A q \in LaterQueues : store[q] # lastUpload']_vars
    /\ [][op = "retrying" /\ pc = "r_failed" /\ pc' # pc /\ qi < Len(queues) =>
            pc' = "lrange" /\ qi' = qi + 1]_vars
    /\ [][op = "retrying" /\ pc = "lrange" /\ pc' # pc /\ IsRetryName(queues[qi]) =>
            pc' = "r_upload" /\ batch' = store[queues[qi]]]_vars

\* the upload of the first retry queue met a transport failure and the pass
\* ended with the second queue as it was
C18_Witness ==
    /\ pc = "idle"
    /\ result.op = "retrying"
    /\ result.errors = <<"exception">>
    /\ nuploads = 1
    /\ Cardinality(RetryQueues) = 2
    /\ \E q \in RetryQueues : store[q] # lastUpload /\ store[q] = entry[q]

\* --------------------------------------------------------------- C19
\* upload_failing has returned from an invocation that found a batch in
\* fail.work
FailingReturnedWithWork ==
    /\ pc = "idle"
    /\ result.op = "failing"
    /\ entry[FAIL_WORK_QUEUE] # <<>>

\* C19: an upload_failing that is invoked while fail.work holds a batch
\* hands that batch to _upload, also when no fail_* queue exists any more.
C19_AsStated ==
    FailingReturnedWithWork =>
        /\ nuploads >= 1
        /\ nuploads = 1 => SameEntries(lastUpload, entry[FAIL_WORK_QUEUE])

\* --------------------------------------------------------------- C20
\* no entry is enqueued in this step and an upload that is answered in it
\* is answered 2xx and returns: its entries are acknowledged in this step
QuietHealthyStep ==
    /\ next_id' = next_id
    /\ (pc \in {"upload", "r_upload"} /\ pc' # pc) =>
          pc' \in {"delete", "r_delete"} /\ Range(batch) \subseteq acked_now'

\* every enqueued entry is acknowledged and every queue is empty
Delivered == acked = Enqueued /\ store = EmptyStore

\* C20: if from some point on no entry is enqueued and every upload is
\* answered 2xx, while upload_pending, upload_retrying and upload_failing
\* are invoked again and again, then eventually every enqueued entry is
\* acknowledged and pend, pend.work, retr_*, fail_* and fail.work are empty.
C20_AsStated == (<>[][QuietHealthyStep]_vars) => <>[]Delivered

====
